---------------------------- MODULE Spec2Model ----------------------------
(***************************************************************************)
(* hfst_altlab: TransducerFile and TransducerPair                          *)
(* (src/src/hfst_altlab/__init__.py).                                      *)
(*                                                                         *)
(* The HFST engine (hfst.HfstInputStream, HfstTransducer.lookup,           *)
(* hfst.is_diacritic) is the environment: what it answers is chosen        *)
(* nondeterministically from bounded sets.  Every call the wrapper makes   *)
(* into the engine during one operation is appended to `calls`, in order,  *)
(* so that statements about order and number of calls are statements       *)
(* about a state.  Python strings are TLA+ strings, str.join is Join,      *)
(* None is the record Absent.                                              *)
(***************************************************************************)
EXTENDS Integers, Sequences, FiniteSets, TLC

VARIABLES
    files,    \* slot -> the TransducerFile object held there, or NoHandle
    pair,     \* TRUE iff the two slots are the fields of one TransducerPair
    op,       \* the operation that ran last
    self,     \* the slot (or "pair") the operation ran on
    args,     \* its arguments
    calls,    \* the engine and file-system calls it made, in order
    result    \* what it returned or raised

vars == <<files, pair, op, self, args, calls, result>>

----------------------------------------------------------------------------
(* Bounds of the model *)

MaxTransducers == 2    \* transducers stored in one container file
MaxResults == 2        \* transductions the engine returns in one operation
MaxSymbols == 3        \* symbols in one engine response, over all transductions
MaxTableSymbols == 2   \* symbols in the answers to all the lookups of one
                       \* operation that looks up several times
MaxWords == 2          \* length of the list given to bulk_lookup
MaxRanked == 3         \* candidates ranked by one TransducerPair.analyse
MaxRankSymbols == 1    \* symbols in the generator's answers for all of them
MaxDist == 1           \* largest finite value of the caller's distance function

(* Program constants *)

DefaultCutoff == 60    \* search_cutoff: int = 60

----------------------------------------------------------------------------
(* Values *)

Slots == {"analyser", "generator"}

Cutoffs == {DefaultCutoff, 30}

NoHandle == [loaded |-> FALSE]

\* None, and a present optional string
Absent == [present |-> FALSE]

Present(s) == [present |-> TRUE, val |-> s]

\* Python truthiness of `str | None`: None and "" are both falsy
Truthy(o) == o.present /\ o.val # ""

OLTypes == {"HFST_OL_TYPE", "HFST_OLW_TYPE"}

ImplementationTypes == OLTypes \cup {"TROPICAL_OPENFST_TYPE"}

\* What the file system and the engine will answer about one path:
\* whether it exists, whether HfstInputStream accepts it, whether read_all
\* gets through it, how many transducers it holds, and what the first one
\* answers to is_infinitely_ambiguous() and get_type().  Fields the
\* constructor never gets to read are fixed, so that a file is listed once.
FileShape(f) ==
    /\ (~f.exists => ~f.parses)
    /\ (~f.parses => ~f.readable)
    /\ (~f.readable => f.count = 0)
    /\ (f.count # 1 => (~f.ambiguous /\ f.type = "HFST_OL_TYPE"))

TransducerFiles ==
    { f \in [exists : BOOLEAN, parses : BOOLEAN, readable : BOOLEAN,
             count : 0..MaxTransducers, ambiguous : BOOLEAN,
             type : ImplementationTypes] : FileShape(f) }

Ev(name, ok) == [call |-> name, ok |-> ok]

----------------------------------------------------------------------------
(* TransducerFile.__init__ *)

\* Mutant: only the unweighted optimized-lookup type is recognised
Optimized_OnlyOL(type) ==
    type = "HFST_OL_TYPE"

\* lines 45-51: the types that need no optimizing
Optimized(type) ==
    type \in {"HFST_OL_TYPE", "HFST_OLW_TYPE"}

\* lines 45-54: get_type(), and lookup_optimize() unless the type is one of those
OptimizeStep(f, events) ==
    IF ~Optimized(f.type)
    THEN events \o <<Ev("get_type", TRUE), Ev("lookup_optimize", TRUE)>>
    ELSE events \o <<Ev("get_type", TRUE)>>

\* lines 35-41: stream.close(), on both branches of the length check
CloseStep(f, events) ==
    events \o <<Ev("close", TRUE)>>

\* Mutant: the exception is re-raised with the engine's own message
NotTransducerMessage_Engine(engineMessage) == engineMessage

\* lines 29-32: the message NotTransducerStreamException leaves with
NotTransducerMessage(engineMessage) == "wrong or corrupt file?"

Called(events, name) == \E i \in DOMAIN events : events[i].call = name

\* lines 42-54: the object the constructor leaves, once it has the transducer;
\* the transducer is in lookup form if it was stored so or was optimized
HandleOf(f, cutoff, events) ==
    [loaded |-> TRUE, cutoff |-> cutoff, transducers |-> f.count,
     ambiguous |-> f.ambiguous,
     lookupForm |-> f.type \in OLTypes \/ Called(events, "lookup_optimize")]

\* Mutant: warnings.warn(...) instead of raise: the load goes on
AmbiguityStep_Warn(f, cutoff, events) ==
    LET done == OptimizeStep(f, events \o <<Ev("is_infinitely_ambiguous", TRUE)>>)
    IN [events |-> done,
        raised |-> "none",
        message |-> IF f.ambiguous THEN "The transducer is infinitely ambiguous." ELSE "",
        handle |-> HandleOf(f, cutoff, done)]

\* lines 43-54: what an infinitely ambiguous transducer does to the load
AmbiguityStep(f, cutoff, events) ==
    IF f.ambiguous
    THEN [events |-> events \o <<Ev("is_infinitely_ambiguous", TRUE)>>,
          raised |-> "RuntimeWarning",
          message |-> "The transducer is infinitely ambiguous.",
          handle |-> NoHandle]
    ELSE LET done == OptimizeStep(f, events \o <<Ev("is_infinitely_ambiguous", TRUE)>>)
         IN [events |-> done,
             raised |-> "none",
             message |-> "",
             handle |-> HandleOf(f, cutoff, done)]

\* lines 19-54
TransducerFileInit(f, cutoff) ==
    IF ~f.exists
    THEN [events |-> <<Ev("exists", FALSE)>>,
          raised |-> "FileNotFoundError",
          message |-> "Transducer not found",
          handle |-> NoHandle]
    ELSE IF ~f.parses
    THEN [events |-> <<Ev("exists", TRUE), Ev("HfstInputStream", FALSE)>>,
          raised |-> "NotTransducerStreamException",
          message |-> NotTransducerMessage("engine message"),
          handle |-> NoHandle]
    ELSE IF ~f.readable
    THEN [events |-> <<Ev("exists", TRUE), Ev("HfstInputStream", TRUE),
                       Ev("read_all", FALSE)>>,
          raised |-> "HfstException",
          message |-> "engine message",
          handle |-> NoHandle]
    ELSE IF f.count # 1
    THEN [events |-> CloseStep(f, <<Ev("exists", TRUE), Ev("HfstInputStream", TRUE),
                                    Ev("read_all", TRUE)>>),
          raised |-> "ValueError",
          message |-> "We expected a single transducer to arise in the file.",
          handle |-> NoHandle]
    ELSE AmbiguityStep(f, cutoff,
                       CloseStep(f, <<Ev("exists", TRUE), Ev("HfstInputStream", TRUE),
                                      Ev("read_all", TRUE)>>))

\* x = TransducerFile(filename, search_cutoff): the slot is rebound only when
\* the constructor returns
NewTransducerFile(slot, f, cutoff) ==
    LET r == TransducerFileInit(f, cutoff) IN
    /\ op = "none"
    /\ op' = "TransducerFile"
    /\ self' = slot
    /\ args' = [file |-> f, cutoff |-> cutoff]
    /\ calls' = r.events
    /\ result' = [raised |-> r.raised, message |-> r.message, handle |-> r.handle]
    /\ files' = IF r.raised = "none" THEN [files EXCEPT ![slot] = r.handle] ELSE files
    /\ pair' = IF r.raised = "none" THEN FALSE ELSE pair

\* lines 182-186: the analyser is built first; the generator only if that
\* returned; both get the same search_cutoff
NewTransducerPair(fa, fg, cutoff) ==
    LET ra == TransducerFileInit(fa, cutoff)
        rg == TransducerFileInit(fg, cutoff)
        ok == ra.raised = "none" /\ rg.raised = "none"
    IN
    /\ op = "none"
    /\ op' = "TransducerPair"
    /\ self' = "pair"
    /\ args' = [file |-> fa, generatorFile |-> fg, cutoff |-> cutoff]
    /\ calls' = IF ra.raised = "none" THEN ra.events \o rg.events ELSE ra.events
    /\ result' = IF ra.raised # "none"
                 THEN [raised |-> ra.raised, message |-> ra.message, handle |-> NoHandle]
                 ELSE [raised |-> rg.raised, message |-> rg.message, handle |-> rg.handle]
    /\ files' = IF ok THEN [analyser |-> ra.handle, generator |-> rg.handle] ELSE files
    /\ pair' = IF ok THEN TRUE ELSE pair

----------------------------------------------------------------------------

(* The engine's answers *)

\* Symbols of the transducers' alphabets: the empty symbol (epsilon), two
\* ordinary symbols and a flag diacritic
FlagDiacritics == {"@P.X@"}

Alphabet == {"", "a", "b"} \cup FlagDiacritics

\* hfst.is_diacritic(x)
IsDiacritic(x) == x \in FlagDiacritics

Words == {"x", "y"}

TokenLists(s) == UNION { [1..n -> Alphabet] : n \in 0..s }

\* The symbol lists of at most r transductions holding at most s symbols in all
RECURSIVE Transductions(_, _)
Transductions(r, s) ==
    IF r = 0 THEN {<<>>}
    ELSE {<<>>} \cup
         UNION { { <<t>> \o rest : rest \in Transductions(r - 1, s - Len(t)) }
                 : t \in TokenLists(s) }

RECURSIVE SymbolsIn(_)
SymbolsIn(ts) == IF ts = <<>> THEN 0 ELSE Len(Head(ts)) + SymbolsIn(Tail(ts))

\* What HfstTransducer.lookup(..., output="raw") returns: (weight, symbols)
\* pairs, lowest weight first; the i-th pair weighs i
Raw(ts) == [i \in DOMAIN ts |-> [weight |-> i, tokens |-> ts[i]]]

\* n answers, one per lookup of a sequence of n lookups, holding at most r
\* transductions and at most s symbols in all
RECURSIVE AnswerTables(_, _, _)
AnswerTables(n, r, s) ==
    IF n = 0 THEN {<<>>}
    ELSE UNION { { <<Raw(a)>> \o rest :
                     rest \in AnswerTables(n - 1, r - Len(a), s - SymbolsIn(a)) }
                 : a \in Transductions(r, s) }

----------------------------------------------------------------------------
(* Strings *)

\* "".join(xs)
RECURSIVE Join(_)
Join(xs) == IF xs = <<>> THEN "" ELSE Head(xs) \o Join(Tail(xs))

----------------------------------------------------------------------------
(* types.py: the records, and the two encoders the lookups call *)

Str(s) == [kind |-> "str", s |-> s]

\* Wordform(weight, tokens)
Wordform(weight, tokens) == [kind |-> "Wordform", weight |-> weight, tokens |-> tokens]

\* FullAnalysis(weight, tokens, standardized)
FullAnalysis(weight, tokens, standardized) ==
    [kind |-> "FullAnalysis", weight |-> weight, tokens |-> tokens,
     standardized |-> standardized]

\* Analysis: prefixes, lemma, suffixes
Analysis(prefixes, lemma, suffixes) ==
    [kind |-> "Analysis", prefixes |-> prefixes, lemma |-> lemma, suffixes |-> suffixes]

\* The attribute of a FullAnalysis that lookup_symbols filters: the symbols
\* of the transduction, as the constructor received them
FlagDiacriticsOf(fa) == fa.tokens

\* as_fst_input(x): the string the engine is to look up
AsFstInput(x) ==
    CASE x.kind = "str" -> x.s
      [] x.kind = "Analysis" -> Join(x.prefixes) \o x.lemma \o Join(x.suffixes)
      [] OTHER -> Join(x.tokens)

\* fst_output_format(tokens): an analysis as the generator is to read it
FstOutputFormat(tokens) == Join(tokens)

\* float(weight)
Float(weight) == weight

----------------------------------------------------------------------------
(* TransducerFile: the lookups *)

\* lines 111-114: the one place the engine is asked; what it is asked, and
\* under which cutoff
LookupCall(slot, h, input) ==
    [call |-> "lookup", on |-> slot, input |-> input, cutoff |-> h.cutoff]

\* lines 130-138: generate(tokens) with a generator; outs is what
\* generator._weighted_lookup returned, i the pair the loop is at
RECURSIVE GenerateLoop(_, _, _)
GenerateLoop(outs, i, entry) ==
    IF i > Len(outs) THEN entry
    ELSE LET candidate == Join(outs[i].tokens) IN
         IF Truthy(entry) /\ entry.val # candidate
         THEN Absent
         ELSE GenerateLoop(outs, i + 1, Present(candidate))

\* lines 128-143: the generate closure; gslot is "none" without a generator
Standardized(gslot, outs) ==
    IF gslot # "none" THEN GenerateLoop(outs, 1, Absent) ELSE Absent

\* Mutant: the generator is asked once, about the first candidate
GeneratorCalls_Once(gslot, gh, raw) ==
    IF gslot # "none" /\ raw # <<>>
    THEN <<LookupCall(gslot, gh, FstOutputFormat(raw[1].tokens))>>
    ELSE <<>>

\* line 132: the generator lookups of one weighted_lookup_full_analysis, one
\* per candidate, each under the generator's cutoff
GeneratorCalls(gslot, gh, raw) ==
    IF gslot # "none"
    THEN [i \in DOMAIN raw |-> LookupCall(gslot, gh, FstOutputFormat(raw[i].tokens))]
    ELSE <<>>

\* lines 145-148: one FullAnalysis per (weight, tokens) pair
FullAnalyses(gslot, raw, gens) ==
    [i \in DOMAIN raw |->
        FullAnalysis(Float(raw[i].weight), raw[i].tokens,
                     Standardized(gslot, IF gslot # "none" THEN gens[i] ELSE <<>>))]

\* lines 116-148: weighted_lookup_full_analysis(wordform, generator); raw is
\* the analyser's answer, gens[i] the generator's answer for candidate i
WLFA(slot, h, wordform, gslot, gh, raw, gens) ==
    [calls |-> <<LookupCall(slot, h, AsFstInput(wordform))>>
                  \o GeneratorCalls(gslot, gh, raw),
     value |-> FullAnalyses(gslot, raw, gens)]

\* Mutant: flag diacritics are let through
Keep_Diacritics(x) == x # ""

\* line 97: the symbols kept
Keep(x) == x # "" /\ ~IsDiacritic(x)

FilterSymbols(tokens) == SelectSeq(tokens, Keep)

\* lines 96-99: lookup_symbols
LookupSymbolsOf(analyses) ==
    [i \in DOMAIN analyses |-> FilterSymbols(FlagDiacriticsOf(analyses[i]))]

\* Mutant: the transductions are joined as the engine returned them
LookupOf_Unfiltered(analyses) ==
    [i \in DOMAIN analyses |-> Join(analyses[i].tokens)]

\* line 78: lookup
LookupOf(analyses) ==
    LET symbols == LookupSymbolsOf(analyses) IN
    [i \in DOMAIN symbols |-> Join(symbols[i])]

\* set(xs)
SetOf(xs) == { xs[i] : i \in DOMAIN xs }

\* line 66: the dict comprehension, a key per word of the list; table[w] is
\* the engine's answer to a lookup of w
BulkLookupOf(words, table) ==
    [w \in SetOf(words) |-> SetOf(LookupOf(FullAnalyses("none", table[w], <<>>)))]

\* lines 162-165: one Wordform per (weight, tokens) pair
WordformsOf(raw) == [i \in DOMAIN raw |-> Wordform(Float(raw[i].weight), raw[i].tokens)]

Idle == op = "none"

Loaded(slot) == files[slot].loaded

Returns(o, s, a, c, v) ==
    /\ op' = o
    /\ self' = s
    /\ args' = a
    /\ calls' = c
    /\ result' = [raised |-> "none", value |-> v]
    /\ UNCHANGED <<files, pair>>

WeightedLookupFullAnalysis(slot, wordform, gslot, raw, gens) ==
    /\ Idle /\ Loaded(slot)
    /\ gslot # "none" => Loaded(gslot)
    /\ LET r == WLFA(slot, files[slot], wordform, gslot,
                     IF gslot # "none" THEN files[gslot] ELSE NoHandle, raw, gens)
       IN Returns("weighted_lookup_full_analysis", slot,
                  [input |-> wordform, generator |-> gslot, raw |-> raw, gens |-> gens],
                  r.calls, r.value)

LookupSymbols(slot, word, raw) ==
    /\ Idle /\ Loaded(slot)
    /\ LET r == WLFA(slot, files[slot], Str(word), "none", NoHandle, raw, <<>>)
       IN Returns("lookup_symbols", slot, [input |-> Str(word), raw |-> raw],
                  r.calls, LookupSymbolsOf(r.value))

Lookup(slot, word, raw) ==
    /\ Idle /\ Loaded(slot)
    /\ LET r == WLFA(slot, files[slot], Str(word), "none", NoHandle, raw, <<>>)
       IN Returns("lookup", slot, [input |-> Str(word), raw |-> raw],
                  r.calls, LookupOf(r.value))

BulkLookup(slot, words, table) ==
    /\ Idle /\ Loaded(slot)
    /\ Returns("bulk_lookup", slot, [words |-> words, table |-> table],
               [i \in DOMAIN words |-> LookupCall(slot, files[slot], AsFstInput(Str(words[i])))],
               BulkLookupOf(words, table))

WeightedLookupFullWordform(slot, analysis, raw) ==
    /\ Idle /\ Loaded(slot)
    /\ Returns("weighted_lookup_full_wordform", slot, [input |-> analysis, raw |-> raw],
               <<LookupCall(slot, files[slot], AsFstInput(analysis))>>,
               WordformsOf(raw))

\* lines 167-175: len(self.transducer.get_alphabet())
SymbolCount(slot, alphabet) ==
    /\ Idle /\ Loaded(slot)
    /\ Returns("symbol_count", slot, [alphabet |-> alphabet],
               <<[call |-> "get_alphabet", on |-> slot]>>, Cardinality(alphabet))

----------------------------------------------------------------------------
(* TransducerPair *)

\* float("+Infinity"): above every finite distance
Infinity == MaxDist + 1

NoDistance == [given |-> FALSE]

Distance(d) == [given |-> TRUE, d |-> d]

\* lines 196-199: key(other)
SortKey(other, source, d) ==
    IF ~other.standardized.present
    THEN Infinity
    ELSE d[<<source, other.standardized.val>>]

\* Mutant: an unstable sort, x goes before the elements of equal key
InsertByKey_Unstable(sorted, x, source, d) ==
    LET p == Cardinality({ i \in DOMAIN sorted :
                             SortKey(sorted[i], source, d) < SortKey(x, source, d) })
    IN SubSeq(sorted, 1, p) \o <<x>> \o SubSeq(sorted, p + 1, Len(sorted))

\* list.sort(key=key) is stable and ascending: x goes behind every element
\* of the sorted prefix whose key is not greater than its own
InsertByKey(sorted, x, source, d) ==
    LET p == Cardinality({ i \in DOMAIN sorted :
                             SortKey(sorted[i], source, d) <= SortKey(x, source, d) })
    IN SubSeq(sorted, 1, p) \o <<x>> \o SubSeq(sorted, p + 1, Len(sorted))

RECURSIVE SortByKey(_, _, _)
SortByKey(candidate, source, d) ==
    IF candidate = <<>> THEN <<>>
    ELSE InsertByKey(SortByKey(SubSeq(candidate, 1, Len(candidate) - 1), source, d),
                     candidate[Len(candidate)], source, d)

\* lines 192-202: the list analyse returns
Ranked(candidate, input, distance) ==
    IF distance.given
    THEN SortByKey(candidate, input.s, distance.d)
    ELSE candidate

\* The distance functions told apart by what they answer on the strings
\* this call can ask about
DistanceFns(source, candidate) ==
    [ { <<source, candidate[i].standardized.val>> :
          i \in { j \in DOMAIN candidate : candidate[j].standardized.present } }
      -> 0..Infinity ]

\* lines 188-202
Analyse(input, raw, gens, distance) ==
    /\ Idle /\ pair
    /\ LET r == WLFA("analyser", files["analyser"], input, "generator",
                     files["generator"], raw, gens)
       IN Returns("analyse", "pair",
                  [input |-> input, distance |-> distance, raw |-> raw, gens |-> gens,
                   unsorted |-> r.value],
                  r.calls, Ranked(r.value, input, distance))

\* Mutant: the suffixes are put before the lemma
GenerateInput_SuffixFirst(analysis) ==
    IF analysis.kind = "Analysis"
    THEN Str(Join(analysis.prefixes) \o Join(analysis.suffixes) \o analysis.lemma)
    ELSE analysis

\* lines 205-209: what generate hands to the generator
GenerateInput(analysis) ==
    IF analysis.kind = "Analysis"
    THEN Str(Join(analysis.prefixes) \o analysis.lemma \o Join(analysis.suffixes))
    ELSE analysis

\* line 210: the transducer generate asks
GenerateTarget == "generator"

\* lines 204-210
Generate(analysis, raw) ==
    /\ Idle /\ pair
    /\ Returns("generate", "pair", [input |-> analysis, raw |-> raw],
               << [call |-> "weighted_lookup_full_wordform", on |-> GenerateTarget,
                   input |-> GenerateInput(analysis)],
                  LookupCall(GenerateTarget, files[GenerateTarget],
                             AsFstInput(GenerateInput(analysis))) >>,
               WordformsOf(raw))

\* The caller is done with what the last operation returned or raised
Discard ==
    /\ ~Idle
    /\ op' = "none"
    /\ self' = "none"
    /\ args' = [cutoff |-> DefaultCutoff]
    /\ calls' = <<>>
    /\ result' = [raised |-> "none"]
    /\ UNCHANGED <<files, pair>>

----------------------------------------------------------------------------

Init ==
    /\ files = [s \in Slots |-> NoHandle]
    /\ pair = FALSE
    /\ op = "none"
    /\ self = "none"
    /\ args = [cutoff |-> DefaultCutoff]
    /\ calls = <<>>
    /\ result = [raised |-> "none"]

\* The analyses a transducer returns in the operations that go on to ask the
\* generator about each: n candidates "a", "ab", "abb", ...
CandidateTokens(i) == [j \in 1..i |-> IF j = 1 THEN "a" ELSE "b"]

Candidates(n) == Raw([i \in 1..n |-> CandidateTokens(i)])

\* Arguments of generate and weighted_lookup_full_wordform
GenerateArgs ==
    { Str(w) : w \in Words }
    \cup { Analysis(p, "l", s) : p \in {<<>>, <<"p", "q">>}, s \in {<<>>, <<"+N", "+Sg">>} }
    \cup { FullAnalysis(1, <<"l", "+N">>, Absent) }

\* Arguments of weighted_lookup_full_analysis
AnalyseArgs == { Str(w) : w \in Words } \cup { Wordform(1, <<"x", "", "y">>) }

WordLists == UNION { [1..n -> Words] : n \in 0..MaxWords }

\* The words of a list, each once, in the order of their first occurrence
RECURSIVE Distinct(_)
Distinct(words) ==
    IF words = <<>> THEN <<>>
    ELSE LET front == Distinct(SubSeq(words, 1, Len(words) - 1))
             w == words[Len(words)]
         IN IF w \in { front[i] : i \in DOMAIN front } THEN front ELSE front \o <<w>>

\* The transducer as far as one bulk_lookup sees it: an answer per word
BulkTables(words) ==
    LET ws == Distinct(words) IN
    { [w \in { ws[i] : i \in DOMAIN ws } |->
          t[CHOOSE i \in DOMAIN ws : ws[i] = w]]
      : t \in AnswerTables(Len(ws), MaxResults, MaxTableSymbols) }

Loads ==
    \/ \E s \in Slots, f \in TransducerFiles, c \in Cutoffs : NewTransducerFile(s, f, c)
    \/ \E fa \in TransducerFiles, fg \in TransducerFiles, c \in Cutoffs :
          NewTransducerPair(fa, fg, c)

\* Every operation, on small answers
Calls ==
    \/ \E s \in Slots, w \in Words, a \in Transductions(1, 1) :
          \/ LookupSymbols(s, w, Raw(a))
          \/ Lookup(s, w, Raw(a))
          \/ BulkLookup(s, <<w>>, [v \in {w} |-> Raw(a)])
          \/ WeightedLookupFullWordform(s, Str(w), Raw(a))
          \/ WeightedLookupFullAnalysis(s, Str(w), "none", Raw(a), <<>>)
          \/ Generate(Str(w), Raw(a))
    \/ \E s \in Slots, n \in 0..1 :
          \E g \in Slots \ {s}, gens \in AnswerTables(n, 1, 1) :
             \/ WeightedLookupFullAnalysis(s, Str("x"), g, Candidates(n), gens)
             \/ Analyse(Str("x"), Candidates(n), gens, NoDistance)
    \/ \E s \in Slots, alphabet \in SUBSET Alphabet : SymbolCount(s, alphabet)

Next ==
    \/ Discard
    \/ Idle /\ Loads
    \/ Idle /\ Calls

Spec == Init /\ [][Next]_vars

\* One TransducerFile and its string lookups
FileLoads == \E f \in TransducerFiles, c \in Cutoffs : NewTransducerFile("analyser", f, c)

FileCalls ==
    \/ \E w \in Words, a \in Transductions(MaxResults, MaxSymbols) :
          \/ LookupSymbols("analyser", w, Raw(a))
          \/ Lookup("analyser", w, Raw(a))
    \/ \E words \in WordLists : \E table \in BulkTables(words) :
          BulkLookup("analyser", words, table)

NextFile ==
    \/ Discard
    \/ Idle /\ FileLoads
    \/ Idle /\ Loaded("analyser") /\ FileCalls

SpecFile == Init /\ [][NextFile]_vars

\* Two TransducerFiles, on their own or as a TransducerPair
FullAnalysisCalls ==
    \/ \E x \in AnalyseArgs, a \in Transductions(MaxResults, MaxSymbols) :
          WeightedLookupFullAnalysis("analyser", x, "none", Raw(a), <<>>)
    \/ /\ Loaded("generator")
       /\ \E x \in AnalyseArgs, n \in 0..MaxResults :
             \E gens \in AnswerTables(n, MaxResults, MaxTableSymbols) :
                WeightedLookupFullAnalysis("analyser", x, "generator", Candidates(n), gens)

PairCalls ==
    \/ \E w \in Words, n \in 0..MaxRanked :
          \E gens \in AnswerTables(n, MaxResults, MaxRankSymbols) :
             \/ Analyse(Str(w), Candidates(n), gens, NoDistance)
             \/ \E d \in DistanceFns(w, FullAnalyses("generator", Candidates(n), gens)) :
                   Analyse(Str(w), Candidates(n), gens, Distance(d))
    \/ \E x \in GenerateArgs, a \in Transductions(MaxResults, MaxSymbols) :
          Generate(x, Raw(a))

NextPair ==
    \/ Discard
    \/ Idle /\ Loads
    \/ Idle /\ Loaded("analyser") /\ FullAnalysisCalls
    \/ Idle /\ pair /\ PairCalls

SpecPair == Init /\ [][NextPair]_vars


----------------------------------------------------------------------------
(* Loading *)

Count(events, name) == Cardinality({ i \in DOMAIN events : events[i].call = name })

StreamOpened(events) == \E i \in DOMAIN events : events[i] = Ev("HfstInputStream", TRUE)

LoadOps == {"TransducerFile", "TransducerPair"}

\* C3: a load fails with FileNotFoundError, and without opening a stream, when
\* the path does not exist; otherwise with NotTransducerStreamException and
\* the message "wrong or corrupt file?" when the stream is no transducer
\* stream; otherwise, once read, with the ValueError for anything but exactly
\* one transducer; and none of the three leaves a handle.
C3_LoadFailureOrder ==
    op = "TransducerFile" =>
        LET f == args.file IN
        /\ ~f.exists =>
              /\ result.raised = "FileNotFoundError"
              /\ ~Called(calls, "HfstInputStream")
              /\ result.handle = NoHandle
        /\ (f.exists /\ ~f.parses) =>
              /\ result.raised = "NotTransducerStreamException"
              /\ result.message = "wrong or corrupt file?"
              /\ result.handle = NoHandle
        /\ (f.exists /\ f.parses /\ f.readable /\ f.count # 1) =>
              /\ result.raised = "ValueError"
              /\ result.handle = NoHandle

C3_Witness ==
    /\ op = "TransducerFile"
    /\ args.file.readable /\ args.file.count = 0
    /\ result.raised = "ValueError"

\* C4: whenever the constructor finishes with a stream opened, the stream
\* has been closed exactly once, and before the transducer was asked about
\* ambiguity, its type, or to optimize.
C4_StreamReleased ==
    (op = "TransducerFile" /\ StreamOpened(calls)) =>
        /\ Count(calls, "close") = 1
        /\ \A i, j \in DOMAIN calls :
              (/\ calls[i].call = "close"
               /\ calls[j].call \in {"is_infinitely_ambiguous", "get_type", "lookup_optimize"})
              => i < j

\* C5 as claimed: an infinitely ambiguous single transducer does not abort
\* the load.
C5_AmbiguityNotFatal ==
    (op = "TransducerFile" /\ args.file.count = 1 /\ args.file.ambiguous) =>
        /\ result.raised = "none"
        /\ result.handle.loaded

\* C5, amended: an infinitely ambiguous single transducer makes the
\* constructor raise RuntimeWarning after the stream is closed; the load is
\* aborted as by the other failures: no handle, and no optimization.
C5_AmbiguityAborts ==
    (op = "TransducerFile" /\ args.file.count = 1 /\ args.file.ambiguous) =>
        /\ result.raised = "RuntimeWarning"
        /\ result.handle = NoHandle
        /\ Count(calls, "close") = 1
        /\ ~Called(calls, "get_type")
        /\ ~Called(calls, "lookup_optimize")

C5_Witness ==
    /\ op = "TransducerFile"
    /\ args.file.count = 1 /\ args.file.ambiguous
    /\ result.raised = "RuntimeWarning"
    /\ calls[Len(calls)] = Ev("is_infinitely_ambiguous", TRUE)

LoadInvariant ==
    \A s \in Slots :
        files[s].loaded =>
            /\ files[s].transducers = 1
            /\ ~files[s].ambiguous
            /\ files[s].lookupForm
            /\ files[s].cutoff \in Cutoffs

OptimizedAtLoadOnly ==
    /\ op = "TransducerFile" =>
          /\ Count(calls, "lookup_optimize") <= 1
          /\ Called(calls, "lookup_optimize") <=>
                (result.raised = "none" /\ args.file.type \notin OLTypes)
          /\ \A i, j \in DOMAIN calls :
                (/\ calls[i].call \in {"read_all", "is_infinitely_ambiguous"}
                 /\ calls[j].call = "lookup_optimize")
                => i < j
          /\ result.raised = "none" =>
                (files[self] = result.handle /\ result.handle.cutoff = args.cutoff)
    /\ op \notin LoadOps => ~Called(calls, "lookup_optimize")

\* C10: every handle owns exactly one transducer, not infinitely ambiguous,
\* in lookup form; lookup_optimize runs at most once, during the load only,
\* only for a type that is not an optimized one, and after the
\* single-transducer and ambiguity checks; and only a constructor that
\* returns changes a handle or its cutoff.
C10_LoadInvariant ==
    /\ [](LoadInvariant /\ OptimizedAtLoadOnly)
    /\ [][files' # files => (op' \in LoadOps /\ result'.raised = "none")]_vars

C10_Witness ==
    /\ op = "TransducerFile"
    /\ result.raised = "none"
    /\ args.file.type = "TROPICAL_OPENFST_TYPE"
    /\ Called(calls, "lookup_optimize")
    /\ files[self].lookupForm

----------------------------------------------------------------------------
(* Lookups of one TransducerFile *)

\* The symbols of a transduction that are neither empty nor flag
\* diacritics, in the order the engine gave them
RECURSIVE Meaningful(_)
Meaningful(tokens) ==
    IF tokens = <<>> THEN <<>>
    ELSE IF Head(tokens) \in {""} \cup FlagDiacritics
         THEN Meaningful(Tail(tokens))
         ELSE <<Head(tokens)>> \o Meaningful(Tail(tokens))

\* C7: lookup_symbols asks the engine once and returns one symbol list per
\* transduction, in the engine's order, each the transduction's symbols
\* without the empty ones and the flag diacritics, the others in their
\* order; filtering a returned list again changes nothing.
C7_LookupSymbols ==
    op = "lookup_symbols" =>
        /\ Len(calls) = 1
        /\ Len(result.value) = Len(args.raw)
        /\ \A i \in DOMAIN args.raw :
              /\ result.value[i] = Meaningful(args.raw[i].tokens)
              /\ FilterSymbols(result.value[i]) = result.value[i]

C7_Witness ==
    /\ op = "lookup_symbols"
    /\ Len(args.raw) = 2
    /\ args.raw[1].tokens = <<"b", "@P.X@", "a">>
    /\ args.raw[2].tokens = <<>>
    /\ result.value = << <<"b", "a">>, <<>> >>

\* C6: bulk_lookup returns a mapping with exactly the distinct words of the
\* list as keys (none for the empty list), each mapped to the set of the
\* strings lookup returns for it: the joined meaningful symbols of each
\* transduction, duplicates once, the empty set without transductions.
C6_BulkLookup ==
    op = "bulk_lookup" =>
        /\ DOMAIN result.value = { args.words[i] : i \in DOMAIN args.words }
        /\ \A w \in DOMAIN result.value :
              LET answer == args.table[w] IN
              /\ result.value[w] =
                    { Join(Meaningful(answer[i].tokens)) : i \in DOMAIN answer }
              /\ Cardinality(result.value[w]) <= Len(answer)

C6_Witness ==
    /\ op = "bulk_lookup"
    /\ args.words = <<"x", "x">>
    /\ Len(args.table["x"]) = 2
    /\ DOMAIN result.value = {"x"}
    /\ result.value["x"] = {"a"}

----------------------------------------------------------------------------
(* weighted_lookup_full_analysis *)

Surfaces(outs) == { Join(outs[k].tokens) : k \in DOMAIN outs }

\* C1: with a generator, a candidate's standardized is s exactly when the
\* generator returned at least one result and every result spells s; with
\* no result, or with two different spellings, it is absent.
C1_UnanimousOrNothing ==
    (op = "weighted_lookup_full_analysis" /\ args.generator # "none") =>
        \A i \in DOMAIN result.value :
            LET std == result.value[i].standardized
                spelt == Surfaces(args.gens[i])
            IN /\ std.present <=> Cardinality(spelt) = 1
               /\ std.present => spelt = {std.val}

\* C8: weighted_lookup_full_analysis asks the analyser once, under its own
\* cutoff, and returns one FullAnalysis per pair of the answer, in order,
\* with the pair's weight; with a generator it then asks the
\* generator once per candidate, under the generator's cutoff; without one
\* it asks nothing more and every standardized is absent.
C8_OneLookupPerCandidate ==
    op = "weighted_lookup_full_analysis" =>
        /\ Len(calls) >= 1
        /\ calls[1].on = self /\ calls[1].cutoff = files[self].cutoff
        /\ Len(result.value) = Len(args.raw)
        /\ \A i \in DOMAIN args.raw :
              /\ result.value[i].kind = "FullAnalysis"
              /\ result.value[i].weight = args.raw[i].weight
        /\ args.generator # "none" =>
              /\ Len(calls) = 1 + Len(args.raw)
              /\ \A i \in DOMAIN args.raw :
                    /\ calls[1 + i].call = "lookup"
                    /\ calls[1 + i].on = args.generator
                    /\ calls[1 + i].cutoff = files[args.generator].cutoff
        /\ args.generator = "none" =>
              /\ Len(calls) = 1
              /\ \A i \in DOMAIN result.value : ~result.value[i].standardized.present

C8_Witness ==
    /\ op = "weighted_lookup_full_analysis"
    /\ args.generator = "generator"
    /\ Len(args.raw) = 2
    /\ Len(calls) = 3
    /\ files["analyser"].cutoff # files["generator"].cutoff
    /\ calls[3].cutoff = files["generator"].cutoff

----------------------------------------------------------------------------
(* TransducerPair *)

\* The sort key the ranking is stated with: the caller's distance from the
\* source string, past every finite distance without a standardized form
RankOf(c) ==
    IF c.standardized.present
    THEN args.distance.d[<<args.input.s, c.standardized.val>>]
    ELSE Infinity

Rearrangements(n) ==
    { f \in [1..n -> 1..n] : \A i, j \in 1..n : f[i] = f[j] => i = j }

\* C2: with a distance function, analyse returns the candidates of the
\* analyser lookup, none added, dropped or changed, ascending by distance
\* from the source string to their standardized form, those without one
\* behind every one with a finite distance, equal keys in the order of the
\* engine.
C2_RankedStably ==
    (op = "analyse" /\ args.distance.given) =>
        LET before == args.unsorted
            after == result.value
        IN /\ Len(after) = Len(before)
           /\ \A i, j \in DOMAIN after : i < j => RankOf(after[i]) <= RankOf(after[j])
           /\ \A i, j \in DOMAIN after :
                 (/\ ~after[i].standardized.present
                  /\ after[j].standardized.present
                  /\ RankOf(after[j]) < Infinity)
                 => j < i
           /\ \E f \in Rearrangements(Len(before)) :
                 /\ \A i \in DOMAIN after : after[i] = before[f[i]]
                 /\ \A i, j \in DOMAIN after :
                       (i < j /\ RankOf(after[i]) = RankOf(after[j])) => f[i] < f[j]

C2_Witness ==
    /\ op = "analyse" /\ args.distance.given
    /\ Len(result.value) = 3
    /\ ~args.unsorted[1].standardized.present
    /\ args.unsorted[2].standardized.present
    /\ args.unsorted[3].standardized.present
    /\ RankOf(args.unsorted[2]) = RankOf(args.unsorted[3])
    /\ result.value = <<args.unsorted[2], args.unsorted[3], args.unsorted[1]>>

=============================================================================
